---------------------------- MODULE Spec2Model ----------------------------
(***************************************************************************)
(* Model of scripts/utils/kakarot.py: the translation layer between        *)
(* Ethereum-style contract interactions and a Starknet-style base chain.   *)
(*                                                                         *)
(*   - _parse_events / _get_matching_logs_for_event: rebuilding EVM logs   *)
(*     from native events (pure; specification SpecParse);                 *)
(*   - the receipt handling of eth_send_transaction, lines 317-337 (pure;  *)
(*     specification SpecExtract);                                         *)
(*   - the coroutines deploy, _wrap_kakarot._wrapper, store_bytecode and   *)
(*     eth_send_transaction, interleaved at their await points             *)
(*     (specification Spec).                                               *)
(*                                                                         *)
(* Python integers are unbounded and the values of interest (2**128,       *)
(* 2**160, field elements below 2**252) do not fit TLC's integers, so an   *)
(* integer that takes part in the topic arithmetic is a sequence of bytes, *)
(* least significant first, without leading zero bytes (0 is << >>).       *)
(***************************************************************************)
EXTENDS Integers, Sequences, FiniteSets, TLC

VARIABLES
    starknet_events,  \* _parse_events: the batch handed in
    parsed,           \* _parse_events: what the call produced (status "pending" before)
    receipt_events,   \* outcome extraction: receipt.events
    extracted,        \* outcome extraction: what it produced (error "pending" before)
    chain_nonce,      \* the signer account's nonce on the chain
    cache,            \* functools.lru_cache of get_contract: key -> object id
    contracts,        \* contract objects: id -> [address, starknet_address]
    task              \* one record per running coroutine

vars == <<starknet_events, parsed, receipt_events, extracted,
          chain_nonce, cache, contracts, task>>

----------------------------------------------------------------------------
(* Unbounded non-negative integers as little-endian byte sequences.        *)

BYTE == 256

NIBBLE == 16

Max(a, b) == IF a >= b THEN a ELSE b

RECURSIVE Norm(_)
Norm(s) ==
    IF s = << >> THEN << >>
    ELSE IF s[Len(s)] = 0 THEN Norm(SubSeq(s, 1, Len(s) - 1))
    ELSE s

ByteAt(a, i) == IF i >= 1 /\ i <= Len(a) THEN a[i] ELSE 0

\* a + b
BigAdd(a, b) ==
    LET n == Max(Len(a), Len(b)) + 1
        c[i \in 0..n] ==
            IF i = 0 THEN 0
            ELSE (ByteAt(a, i) + ByteAt(b, i) + c[i - 1]) \div BYTE
    IN  Norm([i \in 1..n |-> (ByteAt(a, i) + ByteAt(b, i) + c[i - 1]) % BYTE])

\* 2**bits * a, for bits a multiple of 8
BigShl(a, bits) ==
    IF a = << >> THEN << >> ELSE [i \in 1..(bits \div 8) |-> 0] \o a

\* 2**bits
Pow2(bits) ==
    [i \in 1..(bits \div 8) |-> 0] \o << 2 ^ (bits % 8) >>

\* 2**bits - 1
Pow2m1(bits) ==
    Norm([i \in 1..(bits \div 8) |-> BYTE - 1] \o << 2 ^ (bits % 8) - 1 >>)

\* a < b
RECURSIVE BigLt(_, _)
BigLt(a, b) ==
    IF Len(a) # Len(b) THEN Len(a) < Len(b)
    ELSE IF a = << >> THEN FALSE
    ELSE IF a[Len(a)] # b[Len(b)] THEN a[Len(a)] < b[Len(b)]
    ELSE BigLt(Norm(SubSeq(a, 1, Len(a) - 1)), Norm(SubSeq(b, 1, Len(b) - 1)))

\* The hexadecimal digits of a, most significant first: format(a, "x").
HexDigits(a) ==
    IF a = << >> THEN << 0 >>
    ELSE LET n == Len(a)
             all == [k \in 1..(2 * n) |->
                        LET byte == a[n - ((k - 1) \div 2)]
                        IN  IF k % 2 = 1 THEN byte \div NIBBLE ELSE byte % NIBBLE]
         IN  IF all[1] = 0 THEN SubSeq(all, 2, 2 * n) ELSE all

\* format(a, "0<width>x"): at least width digits, zero-padded on the left.
FormatHex(a, width) ==
    LET d == HexDigits(a)
    IN  IF Len(d) >= width THEN d
        ELSE [i \in 1..(width - Len(d)) |-> 0] \o d

\* bytes.fromhex: an odd number of digits is a ValueError.
FromHexOk(h) == Len(h) % 2 = 0

FromHex(h) == [i \in 1..(Len(h) \div 2) |-> NIBBLE * h[2 * i - 1] + h[2 * i]]

----------------------------------------------------------------------------
(* _parse_events and _get_matching_logs_for_event.                         *)
(* A native event is [from_address, keys, data]; keys are byte-sequence    *)
(* integers, data values are plain integers (only bytes(event.data) reads  *)
(* them). Python's 0-based keys[i] is Key(keys, i).                        *)

KAKAROT == "kakarot"   \* get_deployments()["kakarot"]["address"]

TWO_128_BITS == 128

ADDRESS_BITS == 160

TOPIC_HEX == 64

ADDRESS_HEX == 40

Key(keys, i) == keys[i + 1]

\* Mutant of TopicHex: the halves taken in the other order.
TopicHex_Swapped(keys, i) ==
    FormatHex(BigAdd(Key(keys, i + 1), BigShl(Key(keys, i), TWO_128_BITS)),
              TOPIC_HEX)

\* f"{(event.keys[i] + 2**128 * event.keys[i + 1]):064x}"
TopicHex(keys, i) ==
    FormatHex(BigAdd(Key(keys, i), BigShl(Key(keys, i + 1), TWO_128_BITS)),
              TOPIC_HEX)

\* What evaluating the i-th element of the topics comprehension raises.
TopicError(keys, i) ==
    IF i + 1 >= Len(keys) THEN "IndexError"
    ELSE IF ~FromHexOk(TopicHex(keys, i)) THEN "ValueError"
    ELSE "none"

\* range(1, len(event.keys), 2) has len \div 2 elements: i = 2k - 1.
TopicCount(keys) == Len(keys) \div 2

Topics(keys) == [k \in 1..TopicCount(keys) |-> FromHex(TopicHex(keys, 2 * k - 1))]

TopicsError(keys) ==
    LET bad == {k \in 1..TopicCount(keys) : TopicError(keys, 2 * k - 1) # "none"}
    IN  IF bad = {} THEN "none"
        ELSE TopicError(keys, 2 * (CHOOSE k \in bad : \A m \in bad : k <= m) - 1)

\* bytes(event.data): every value must be in range(256).
DataError(data) ==
    IF \E j \in 1..Len(data) : data[j] < 0 \/ data[j] >= BYTE THEN "ValueError"
    ELSE "none"

\* Mutant of IsKakarotEvent: the first key is not compared with 2**160.
IsKakarotEvent_NoRange(event) ==
    /\ event.from_address = KAKAROT
    /\ Len(event.keys) >= 1

\* The filter of the kakarot_events comprehension.
IsKakarotEvent(event) ==
    /\ event.from_address = KAKAROT
    /\ BigLt(Key(event.keys, 0), Pow2(ADDRESS_BITS))

\* event.keys[0] is read, for an event of the Kakarot address, whatever its keys.
FilterRaises(events) ==
    \E j \in 1..Len(events) :
        events[j].from_address = KAKAROT /\ Len(events[j].keys) = 0

\* One LogReceipt(...); error is what building it raises, if anything.
LogReceiptOf(event, log_index) ==
    LET err == IF DataError(event.data) # "none" THEN DataError(event.data)
               ELSE TopicsError(event.keys)
    IN  [error    |-> err,
         address  |-> FormatHex(Key(event.keys, 0), ADDRESS_HEX),
         data     |-> event.data,
         logIndex |-> log_index,
         topics   |-> IF err = "none" THEN Topics(event.keys) ELSE << >>]

\* An event descriptor of the contract's ABI: its name, its signature topic,
\* the number of indexed inputs and the bytes its data types need.
SigTopicA == [i \in 1..32 |-> IF i \in {16, 32} THEN 1 ELSE 0]

SigTopicB == [i \in 1..32 |-> IF i > 16 THEN BYTE - 1 ELSE 0]

EventAbis ==
    << [name |-> "Ping", topic |-> SigTopicA, indexed |-> 0, dataBytes |-> 0],
       [name |-> "Transfer", topic |-> SigTopicB, indexed |-> 1, dataBytes |-> 1] >>

\* get_event_data(codec, event_abi, log_receipt): "ok", or the exception.
EventDataError(event_abi, log) ==
    IF Len(log.topics) = 0 THEN "MismatchedABI"
    ELSE IF log.topics[1] # event_abi.topic THEN "MismatchedABI"
    ELSE IF Len(log.topics) - 1 # event_abi.indexed THEN "LogTopicError"
    ELSE IF Len(log.data) < event_abi.dataBytes THEN "InsufficientDataBytes"
    ELSE "none"

EventArgs(log) ==
    [topics |-> SubSeq(log.topics, 2, Len(log.topics)), data |-> log.data]

\* _get_matching_logs_for_event
RECURSIVE GetMatchingLogsForEvent(_, _)
GetMatchingLogsForEvent(event_abi, log_receipts) ==
    IF log_receipts = << >> THEN << >>
    ELSE LET rest == GetMatchingLogsForEvent(event_abi, Tail(log_receipts))
         IN  IF EventDataError(event_abi, Head(log_receipts)) = "none"
             THEN << EventArgs(Head(log_receipts)) >> \o rest
             ELSE rest

\* _parse_events(cls, starknet_events), with cls._events = EventAbis
ParseEvents(events) ==
    IF FilterRaises(events)
    THEN [status |-> "IndexError", logs |-> << >>, result |-> << >>]
    ELSE LET kakarot_events == SelectSeq(events, IsKakarotEvent)
             log_receipts ==
                 [j \in 1..Len(kakarot_events) |->
                     LogReceiptOf(kakarot_events[j], j - 1)]
             bad == {j \in 1..Len(kakarot_events) : log_receipts[j].error # "none"}
         IN  IF bad # {}
             THEN [status |-> log_receipts[CHOOSE j \in bad : \A m \in bad : j <= m].error,
                   logs |-> << >>, result |-> << >>]
             ELSE [status |-> "ok",
                   logs   |-> log_receipts,
                   result |-> [n \in {EventAbis[a].name : a \in 1..Len(EventAbis)} |->
                                 GetMatchingLogsForEvent(
                                     CHOOSE abi \in {EventAbis[a] : a \in 1..Len(EventAbis)} :
                                         abi.name = n,
                                     log_receipts)]]

----------------------------------------------------------------------------
(* Inputs of _parse_events.                                                *)

MaxEvents == 2     \* events in a batch of the small pool

MaxKeys == 5       \* keys of an event of the wide pool

EVM_ADDRESS_1111 == << 17, 17 >>             \* 0x1111

\* Values a key after the first may hold: any field element below 2**252.
Pattern128 == [i \in 1..16 |-> 16 * i - 15]   \* 0xf1e1d1...211101

Felts ==
    { << >>, << 1 >>, Pow2m1(TWO_128_BITS), Pow2(TWO_128_BITS), Pow2m1(252),
      Pattern128 }

\* The two halves of the Uint256 whose 32-byte rendering is SigTopicA, SigTopicB.
SigALow == << 1 >>

SigAHigh == << 1 >>

SigBLow == Pow2m1(TWO_128_BITS)

SigBHigh == << >>

SmallKeys ==
    { << >>,
      << EVM_ADDRESS_1111 >>,
      << Pow2m1(ADDRESS_BITS) >>,
      << Pow2(ADDRESS_BITS) >>,
      << EVM_ADDRESS_1111, SigALow >>,
      << EVM_ADDRESS_1111, SigALow, SigAHigh >>,
      << Pow2(ADDRESS_BITS), SigALow, SigAHigh >>,
      << EVM_ADDRESS_1111, SigBLow, SigBHigh, << 7 >>, << 9 >> >> }

SmallEvents ==
    [from_address : {KAKAROT}, keys : SmallKeys, data : {<< 1 >>}]
    \cup [from_address : {"other"},
          keys : {<< >>, << EVM_ADDRESS_1111, SigALow, SigAHigh >>},
          data : {<< 1 >>}]
    \cup {[from_address |-> KAKAROT,
           keys |-> << EVM_ADDRESS_1111, SigBLow, SigBHigh, << 7 >>, << 9 >> >>,
           data |-> << >>],
          [from_address |-> KAKAROT, keys |-> << EVM_ADDRESS_1111 >>, data |-> << BYTE >>]}

RECURSIVE SeqsUpTo(_, _)
SeqsUpTo(S, n) ==
    IF n = 0 THEN {<< >>}
    ELSE LET shorter == SeqsUpTo(S, n - 1)
         IN  shorter \cup {Append(q, x) : q \in {r \in shorter : Len(r) = n - 1}, x \in S}

\* One retained event with every combination of key values after the first.
WideEvents ==
    {[from_address |-> KAKAROT, keys |-> << EVM_ADDRESS_1111 >> \o rest, data |-> << 1 >>] :
        rest \in SeqsUpTo(Felts, MaxKeys - 1)}

Batches == SeqsUpTo(SmallEvents, MaxEvents) \cup {<< e >> : e \in WideEvents}

\* Before the receipt of eth_send_transaction is read (lines 317-337).
NoOutcome == [error |-> "pending", response |-> << >>, success |-> 0]

\* Before the call returns or raises.
NotParsed == [status |-> "pending", logs |-> << >>, result |-> << >>]

InitParse ==
    /\ starknet_events \in Batches
    /\ parsed = NotParsed
    /\ receipt_events = << >>
    /\ extracted = NoOutcome
    /\ chain_nonce = 0
    /\ cache = << >>
    /\ contracts = << >>
    /\ task = << >>

\* contract.events.parse_starknet_events(starknet_events)
ParseStarknetEvents ==
    /\ parsed.status = "pending"
    /\ parsed' = ParseEvents(starknet_events)
    /\ UNCHANGED <<starknet_events, receipt_events, extracted,
                   chain_nonce, cache, contracts, task>>

NextParse == ParseStarknetEvents

SpecParse == InitParse /\ [][NextParse]_vars

----------------------------------------------------------------------------
(* Properties of _parse_events (specification SpecParse).                  *)

\* The value of a string of hex digits (most significant first, even length).
BigOfHex(h) ==
    Norm([i \in 1..(Len(h) \div 2) |->
             NIBBLE * h[Len(h) - 2 * i + 1] + h[Len(h) - 2 * i + 2]])

\* The 16-byte big-endian rendering of a value below 2**128.
BigEndian16(x) == [i \in 1..16 |-> ByteAt(x, 17 - i)]

IsUint128(x) == Len(x) <= 16

\* The guard as the specification states it: Kakarot's address, and a first
\* key below 2**160 (at most 20 significant bytes).
PassesGuard(event) ==
    /\ event.from_address = KAKAROT
    /\ Len(event.keys) >= 1
    /\ Len(event.keys[1]) <= 20

Guarded == SelectSeq(starknet_events, PassesGuard)

\* C4 (address guard): when _parse_events returns, there is exactly one log per
\* event of the Kakarot address whose first key is below 2**160, in order, its
\* address is the 40-digit rendering of that first key, and every decoded
\* argument set of every event name carries the data of such an event.
C4_AddressGuard ==
    parsed.status = "ok" =>
        /\ Len(parsed.logs) = Len(Guarded)
        /\ \A j \in 1..Len(parsed.logs) :
               /\ Len(parsed.logs[j].address) = ADDRESS_HEX
               /\ BigOfHex(parsed.logs[j].address) = Guarded[j].keys[1]
               /\ parsed.logs[j].logIndex = j - 1
        /\ \A n \in DOMAIN parsed.result :
               /\ Len(parsed.result[n]) <= Len(Guarded)
               /\ \A a \in 1..Len(parsed.result[n]) :
                      \E j \in 1..Len(Guarded) :
                          /\ parsed.result[n][a].data = Guarded[j].data
                          /\ Len(parsed.result[n][a].topics) + 1 = (Len(Guarded[j].keys) - 1) \div 2

\* A batch holding a Kakarot event whose first key is 2**160 or more and a
\* retained event that decodes under some event name.
C4_Witness ==
    /\ parsed.status = "ok"
    /\ \E j \in 1..Len(starknet_events) :
           /\ starknet_events[j].from_address = KAKAROT
           /\ Len(starknet_events[j].keys) = 3
           /\ Len(starknet_events[j].keys[1]) > 20
    /\ \E n \in DOMAIN parsed.result : Len(parsed.result[n]) >= 1

\* C5 (topic round-trip): when _parse_events returns, the k-th topic of a log is
\* built from the keys at (0-based) positions 2k+1 and 2k+2 of its event, never
\* from the first key, and when these are the halves of a 256-bit integer T
\* (low = T mod 2**128, high = T div 2**128) the topic is T: the 16 big-endian
\* bytes of high followed by the 16 big-endian bytes of low.
C5_TopicRoundTrip ==
    parsed.status = "ok" =>
        \A j \in 1..Len(parsed.logs) :
            LET keys == Guarded[j].keys
                topics == parsed.logs[j].topics
            IN  /\ Len(topics) = (Len(keys) - 1) \div 2
                /\ \A k \in 1..Len(topics) :
                       LET low == keys[2 * k]
                           high == keys[2 * k + 1]
                       IN  (IsUint128(low) /\ IsUint128(high)) =>
                               topics[k] = BigEndian16(high) \o BigEndian16(low)

\* A log with two topics, the first from halves with sixteen distinct bytes
\* and 2**128 - 1.
C5_Witness ==
    /\ parsed.status = "ok"
    /\ \E j \in 1..Len(parsed.logs) :
           /\ Len(parsed.logs[j].topics) = 2
           /\ Guarded[j].keys[2] = Pattern128
           /\ Guarded[j].keys[3] = Pow2m1(TWO_128_BITS)
           /\ Guarded[j].keys[4] # Guarded[j].keys[2]
           /\ IsUint128(Guarded[j].keys[4]) /\ IsUint128(Guarded[j].keys[5])

\* C6 (topic width): every topic of every reconstructed log is exactly 32 bytes
\* long, whatever field values the keys after the first hold.
C6_TopicWidth ==
    parsed.status = "ok" =>
        \A j \in 1..Len(parsed.logs) :
            \A k \in 1..Len(parsed.logs[j].topics) :
                Len(parsed.logs[j].topics[k]) = 32

\* C10 (totality): _parse_events never raises, and returns a list for every
\* requested event name.
C10_Totality ==
    parsed.status # "pending" =>
        /\ parsed.status = "ok"
        /\ DOMAIN parsed.result = {EventAbis[a].name : a \in 1..Len(EventAbis)}

----------------------------------------------------------------------------
(* eth_send_transaction, lines 317-337: the outcome read from the receipt. *)
(* Here a key is a name: only equality with the status selector is read.   *)

ACCOUNT == "eoa"                        \* evm_account.address

TX_EXECUTED == "transaction_executed"   \* starknet_keccak(b"transaction_executed")

Raised(exception) == [error |-> exception, response |-> << >>, success |-> 0]

\* The filter of the transaction_events comprehension.
IsStatusEvent(event) ==
    /\ event.from_address = ACCOUNT
    /\ Key(event.keys, 0) = TX_EXECUTED

\* event.keys[0] is read for every event of the account's address.
StatusFilterRaises(events) ==
    \E j \in 1..Len(events) :
        events[j].from_address = ACCOUNT /\ Len(events[j].keys) = 0

\* Mutant of Destructure: the declared length is not compared.
Destructure_Unchecked(data) ==
    IF Len(data) < 4
    THEN Raised("ValueError: not enough values to unpack")
    ELSE [error |-> "none",
          response |-> SubSeq(data, 4, Len(data) - 1),
          success |-> data[Len(data)]]

\* msg_hash_low, msg_hash_high, response_len, *response, success = data
Destructure(data) ==
    IF Len(data) < 4
    THEN Raised("ValueError: not enough values to unpack")
    ELSE LET response_len == data[3]
             response == SubSeq(data, 4, Len(data) - 1)
             success == data[Len(data)]
         IN  IF response_len # Len(response)
             THEN Raised("ValueError: Not able to parse event data")
             ELSE [error |-> "none", response |-> response, success |-> success]

ExtractOutcome(events) ==
    IF StatusFilterRaises(events) THEN Raised("IndexError")
    ELSE LET transaction_events == SelectSeq(events, IsStatusEvent)
         IN  IF Len(transaction_events) # 1
             THEN Raised("ValueError: Cannot locate the single event giving the actual tx status")
             ELSE Destructure(transaction_events[1].data)

(* Receipts. *)

MaxReceiptEvents == 2   \* events in a receipt of the small pool

MaxResponse == 2        \* response values of a status event of the wide pool

OtherEvents ==
    [from_address : {ACCOUNT, "other"}, keys : {<< >>, << "Transfer" >>}, data : {<< >>}]
    \cup {[from_address |-> "other", keys |-> << TX_EXECUTED >>, data |-> << 0, 0, 0, 1 >>]}

StatusEvent(data) == [from_address |-> ACCOUNT, keys |-> << TX_EXECUTED >>, data |-> data]

SmallReceiptEvents ==
    OtherEvents
    \cup { StatusEvent(<< 5, 6, 2, 11, 12, 1 >>),
           StatusEvent(<< 5, 6, 1, 13, 0 >>),
           StatusEvent(<< 5, 6, 3, 11, 12, 1 >>) }

WideStatusEvents ==
    { StatusEvent(<< 5, 6, L >> \o response \o << success >>) :
          L \in 0..(MaxResponse + 1),
          response \in SeqsUpTo({11, 12}, MaxResponse),
          success \in {0, 1} }
    \cup { StatusEvent(<< >>), StatusEvent(<< 5, 6, 0 >>) }

Receipts ==
    SeqsUpTo(SmallReceiptEvents, MaxReceiptEvents)
    \cup { << e >> : e \in WideStatusEvents }
    \cup { << o, e >> : o \in OtherEvents, e \in WideStatusEvents }
    \cup { << e, o >> : o \in OtherEvents, e \in WideStatusEvents }

InitExtract ==
    /\ receipt_events \in Receipts
    /\ extracted = NoOutcome
    /\ starknet_events = << >>
    /\ parsed = NotParsed
    /\ chain_nonce = 0
    /\ cache = << >>
    /\ contracts = << >>
    /\ task = << >>

\* Lines 317-337 on receipt.events = receipt_events.
ReadOutcome ==
    /\ extracted.error = "pending"
    /\ extracted' = ExtractOutcome(receipt_events)
    /\ UNCHANGED <<starknet_events, parsed, receipt_events,
                   chain_nonce, cache, contracts, task>>

NextExtract == ReadOutcome

SpecExtract == InitExtract /\ [][NextExtract]_vars

(* Properties of the outcome extraction (specification SpecExtract).       *)

\* The events the claim calls M, counted on the receipt itself.
Matching ==
    {j \in 1..Len(receipt_events) :
        /\ receipt_events[j].from_address = ACCOUNT
        /\ Len(receipt_events[j].keys) >= 1
        /\ receipt_events[j].keys[1] = TX_EXECUTED}

SelectionErrors ==
    {"IndexError", "ValueError: Cannot locate the single event giving the actual tx status"}

\* C1 (status-event uniqueness): with no or several matching status events the
\* extraction raises; with exactly one it goes on to that event's data,
\* whatever the other events of the receipt.
C1_StatusUniqueness ==
    extracted.error # "pending" =>
        /\ Cardinality(Matching) # 1 => extracted.error \in SelectionErrors
        /\ Cardinality(Matching) = 1 => extracted.error \notin SelectionErrors

\* C2 (response length): once the single status event is selected, with data
\* [h_low, h_high, L, v_1..v_n, success], the extraction returns v_1..v_n and
\* success when L = n and raises the parsing error when L # n.
C2_ResponseLength ==
    (extracted.error \notin (SelectionErrors \cup {"pending"}) /\ Cardinality(Matching) = 1) =>
        LET data == receipt_events[CHOOSE j \in Matching : TRUE].data
            n == Len(data) - 4
        IN  n >= 0 =>
                IF data[3] = n
                THEN /\ extracted.error = "none"
                     /\ Len(extracted.response) = n
                     /\ \A i \in 1..n : extracted.response[i] = data[3 + i]
                     /\ extracted.success = data[Len(data)]
                ELSE extracted = Raised("ValueError: Not able to parse event data")

\* A receipt with another event before the status event, whose two response
\* values are returned with success 0.
C2_Witness ==
    /\ extracted.error = "none"
    /\ extracted.response = << 12, 11 >>
    /\ extracted.success = 0
    /\ Len(receipt_events) = 2
    /\ Matching = {2}

----------------------------------------------------------------------------
(* The coroutines. Each task is one call of deploy, of a wrapped contract   *)
(* method (state-mutating, or pure/view) or of store_bytecode, run on one  *)
(* asyncio loop: the code between two awaits is one step, and the steps of *)
(* different tasks interleave. All tasks sign with the same account, passed *)
(* as caller_eoa or obtained from get_eoa().                               *)

Tasks == {"t1", "t2"}

ContractNames == {"Counter", "Token"}

NONE == "None"

\* A small integer as a byte-sequence integer.
RECURSIVE BigOfInt(_)
BigOfInt(n) == IF n = 0 THEN << >> ELSE << n % BYTE >> \o BigOfInt(n \div BYTE)

\* What the chain answers to the creation transaction sent with a nonce:
\* the new contract's native address and EVM address.
StarknetAddressOf(nonce) == 100 + nonce

EvmAddressOf(nonce) == 200 + nonce

\* The receipts the chain may hold for the transaction sent with a nonce.
TxReceiptEvents(nonce) ==
    OtherEvents
    \cup { StatusEvent(<< 5, 6, 2, StarknetAddressOf(nonce), EvmAddressOf(nonce), 1 >>),
           StatusEvent(<< 5, 6, 1, 13, 0 >>),
           StatusEvent(<< 5, 6, 1, 14, 1 >>),
           StatusEvent(<< 5, 6, 3, 11, 12, 1 >>) }

TxReceipts(nonce) == SeqsUpTo(TxReceiptEvents(nonce), MaxReceiptEvents)

IdleTask ==
    [op |-> "none", pc |-> "idle", caller_eoa |-> NONE, key |-> NONE, obj |-> 0,
     nonce |-> -1, steps |-> << >>, executes |-> 0, nonce_at_execute |-> -1,
     response |-> << >>, success |-> -1,
     kind |-> "running", exception |-> NONE, payload |-> << >>, value |-> << >>]

Init ==
    /\ chain_nonce = 0
    /\ cache = << >>            \* the empty mapping
    /\ contracts = << >>
    /\ task = [t \in Tasks |-> IdleTask]
    /\ starknet_events = << >>
    /\ parsed = NotParsed
    /\ receipt_events = << >>
    /\ extracted = NoOutcome

Raise(r, exception, payload) ==
    [r EXCEPT !.pc = "done", !.kind = "raised", !.exception = exception, !.payload = payload]

Return(r, value) ==
    [r EXCEPT !.pc = "done", !.kind = "returned", !.value = value]

\* The first await of eth_send_transaction: evm_account = caller_eoa or await get_eoa()
EnterSend(caller_eoa) == IF caller_eoa = NONE THEN "get_eoa" ELSE "get_nonce"

UnchangedPure == UNCHANGED <<starknet_events, parsed, receipt_events, extracted>>

\* deploy, lines 126-131: get_contract (memoized on its arguments), then into
\* eth_send_transaction. A contract name with no unique artifact raises.
CallDeploy(t) ==
    /\ task[t].pc = "idle"
    /\ \E name \in ContractNames \cup {"Missing"}, caller_eoa \in {NONE, ACCOUNT} :
           LET key == << name, caller_eoa >>
           IN  IF name = "Missing"
               THEN /\ task' = [task EXCEPT ![t] =
                                   Raise([@ EXCEPT !.op = "deploy"], "ValueError", << >>)]
                    /\ UNCHANGED <<cache, contracts>>
               ELSE IF key \in DOMAIN cache
               THEN /\ task' = [task EXCEPT ![t] =
                                   [@ EXCEPT !.op = "deploy", !.caller_eoa = caller_eoa,
                                             !.key = key, !.obj = cache[key],
                                             !.pc = EnterSend(caller_eoa)]]
                    /\ UNCHANGED <<cache, contracts>>
               ELSE /\ contracts' = Append(contracts,
                                           [address |-> NONE, starknet_address |-> NONE])
                    /\ cache' = [k \in DOMAIN cache \cup {key} |->
                                    IF k = key THEN Len(contracts) + 1 ELSE cache[k]]
                    /\ task' = [task EXCEPT ![t] =
                                   [@ EXCEPT !.op = "deploy", !.caller_eoa = caller_eoa,
                                             !.key = key, !.obj = Len(contracts) + 1,
                                             !.pc = EnterSend(caller_eoa)]]
    /\ UNCHANGED chain_nonce
    /\ UnchangedPure

\* _wrapper, lines 204-214 and 237-238, for a state-mutating function.
CallMethod(t) ==
    /\ task[t].pc = "idle"
    /\ \E caller_eoa \in {NONE, ACCOUNT} :
           task' = [task EXCEPT ![t] =
                       [@ EXCEPT !.op = "method", !.caller_eoa = caller_eoa,
                                 !.pc = EnterSend(caller_eoa)]]
    /\ UNCHANGED <<chain_nonce, cache, contracts>>
    /\ UnchangedPure

\* _wrapper, lines 204-215, for a pure or view function.
CallView(t) ==
    /\ task[t].pc = "idle"
    /\ task' = [task EXCEPT ![t] = [@ EXCEPT !.op = "view", !.pc = "kakarot_contract"]]
    /\ UNCHANGED <<chain_nonce, cache, contracts>>
    /\ UnchangedPure

\* store_bytecode, lines 383-415.
CallStoreBytecode(t) ==
    /\ task[t].pc = "idle"
    /\ \E caller_eoa \in {NONE, ACCOUNT} :
           task' = [task EXCEPT ![t] =
                       [@ EXCEPT !.op = "store", !.caller_eoa = caller_eoa,
                                 !.pc = EnterSend(caller_eoa)]]
    /\ UNCHANGED <<chain_nonce, cache, contracts>>
    /\ UnchangedPure

\* await get_eoa() returns the default account.
GetEoa(t) ==
    /\ task[t].pc = "get_eoa"
    /\ task' = [task EXCEPT ![t] = [@ EXCEPT !.pc = "get_nonce"]]
    /\ UNCHANGED <<chain_nonce, cache, contracts>>
    /\ UnchangedPure

\* await evm_account.get_nonce() returns; the transaction is built and signed
\* (lines 291-307) and evm_account.execute is called.
GetNonce(t) ==
    /\ task[t].pc = "get_nonce"
    /\ task' = [task EXCEPT ![t] =
                   [@ EXCEPT !.nonce = chain_nonce,
                             !.steps = @ \o << "nonce", "sign" >>,
                             !.pc = "execute"]]
    /\ UNCHANGED <<chain_nonce, cache, contracts>>
    /\ UnchangedPure

\* evm_account.execute(...): the chain takes the transaction when its nonce is
\* the account's, and the account's nonce moves on; otherwise the call raises.
Execute(t) ==
    /\ task[t].pc = "execute"
    /\ IF task[t].nonce = chain_nonce
       THEN /\ chain_nonce' = chain_nonce + 1
            /\ task' = [task EXCEPT ![t] =
                           [@ EXCEPT !.steps = Append(@, "execute"),
                                     !.executes = @ + 1,
                                     !.nonce_at_execute = chain_nonce,
                                     !.pc = "wait"]]
       ELSE /\ chain_nonce' = chain_nonce
            /\ task' = [task EXCEPT ![t] =
                           Raise([@ EXCEPT !.steps = Append(@, "execute"),
                                           !.executes = @ + 1,
                                           !.nonce_at_execute = chain_nonce],
                                 "ClientError", << >>)]
    /\ UNCHANGED <<cache, contracts>>
    /\ UnchangedPure

\* await wait_for_transaction(...): returns, or raises (timeout, rejection).
WaitForTransaction(t) ==
    /\ task[t].pc = "wait"
    /\ \/ task' = [task EXCEPT ![t] =
                      [@ EXCEPT !.steps = Append(@, "wait"), !.pc = "receipt"]]
       \/ task' = [task EXCEPT ![t] =
                      Raise([@ EXCEPT !.steps = Append(@, "wait")], "WaitError", << >>)]
    /\ UNCHANGED <<chain_nonce, cache, contracts>>
    /\ UnchangedPure

\* Mutant of AfterSend: deploy and the method wrapper send again on success 0.
AfterSend_Retry(r, outcome) ==
    IF outcome.error # "none" THEN Raise(r, outcome.error, << >>)
    ELSE IF outcome.success = 0 THEN [r EXCEPT !.pc = "get_nonce"]
    ELSE Return([r EXCEPT !.response = outcome.response, !.success = outcome.success],
                "receipt")

\* What the caller does with (receipt, response, success), up to its next
\* await or its end: deploy lines 139-147, _wrapper lines 246-250,
\* store_bytecode lines 416-418.
AfterSend(r, outcome) ==
    LET seen == [r EXCEPT !.response = outcome.response, !.success = outcome.success]
    IN  IF outcome.error # "none" THEN Raise(r, outcome.error, << >>)
        ELSE IF r.op = "deploy"
        THEN IF outcome.success = 0
             THEN Raise(seen, "EvmTransactionError", outcome.response)
             ELSE IF Len(outcome.response) # 2 THEN Raise(seen, "ValueError", << >>)
             ELSE Return(seen, r.obj)
        ELSE IF r.op = "method"
        THEN IF outcome.success = 0
             THEN Raise(seen, "EvmTransactionError", outcome.response)
             ELSE Return(seen, "receipt")
        ELSE \* store_bytecode: assert success
             IF outcome.success = 0 THEN Raise(seen, "AssertionError", << >>)
             ELSE IF Len(outcome.response) # 2 THEN Raise(seen, "ValueError", << >>)
             ELSE [seen EXCEPT !.pc = "get_bytecode"]

\* deploy lines 142-144: the (memoized) contract object takes the addresses.
Deployed(r, outcome) ==
    r.op = "deploy" /\ outcome.error = "none" /\ outcome.success # 0
    /\ Len(outcome.response) = 2

\* await CLIENT.get_transaction_receipt(...) returns; the outcome is read from
\* the receipt (lines 318-337) and the caller goes on.
GetReceipt(t) ==
    /\ task[t].pc = "receipt"
    /\ \E events \in TxReceipts(task[t].nonce) :
           LET outcome == ExtractOutcome(events)
               r == [task[t] EXCEPT !.steps = @ \o << "receipt", "extract" >>]
           IN  /\ task' = [task EXCEPT ![t] = AfterSend(r, outcome)]
               /\ contracts' =
                      IF Deployed(r, outcome)
                      THEN [contracts EXCEPT ![r.obj] =
                               [address |-> FormatHex(BigOfInt(outcome.response[2]), ADDRESS_HEX),
                                starknet_address |-> outcome.response[1]]]
                      ELSE contracts
    /\ UNCHANGED <<chain_nonce, cache>>
    /\ UnchangedPure

\* store_bytecode lines 418-420: await get_bytecode(evm_address) returns the
\* stored code, which is the requested bytecode or not.
GetBytecode(t) ==
    /\ task[t].pc = "get_bytecode"
    /\ \E same \in BOOLEAN :
           task' = [task EXCEPT ![t] =
                       IF same THEN Return(@, @.response[2])
                       ELSE Raise(@, "AssertionError", << >>)]
    /\ UNCHANGED <<chain_nonce, cache, contracts>>
    /\ UnchangedPure

\* _wrapper line 215: await _get_starknet_contract("kakarot") returns.
GetKakarotContract(t) ==
    /\ task[t].pc = "kakarot_contract"
    /\ task' = [task EXCEPT ![t] = [@ EXCEPT !.pc = "eth_call"]]
    /\ UNCHANGED <<chain_nonce, cache, contracts>>
    /\ UnchangedPure

\* _wrapper lines 221-235: the eth_call result comes back.
EthCall(t) ==
    /\ task[t].pc = "eth_call"
    /\ \E success \in {0, 1}, return_data \in {<< >>, << 42 >>} :
           LET seen == [task[t] EXCEPT !.response = return_data, !.success = success]
           IN  task' = [task EXCEPT ![t] =
                           IF success = 0
                           THEN Raise(seen, "EvmTransactionError", return_data)
                           ELSE Return(seen, return_data)]
    /\ UNCHANGED <<chain_nonce, cache, contracts>>
    /\ UnchangedPure

Next ==
    \E t \in Tasks :
        \/ CallDeploy(t)
        \/ CallMethod(t)
        \/ CallView(t)
        \/ CallStoreBytecode(t)
        \/ GetEoa(t)
        \/ GetNonce(t)
        \/ Execute(t)
        \/ WaitForTransaction(t)
        \/ GetReceipt(t)
        \/ GetBytecode(t)
        \/ GetKakarotContract(t)
        \/ EthCall(t)

Spec == Init /\ [][Next]_vars

(* Properties of the coroutines (specification Spec).                      *)

\* C3 (failure signaling): a caller that saw the EVM success flag 0 ends by
\* raising EvmTransactionError carrying the response, and returns nothing.
C3_FailureSignaling ==
    \A t \in Tasks :
        (task[t].pc = "done" /\ task[t].success = 0) =>
            /\ task[t].kind = "raised"
            /\ task[t].exception = "EvmTransactionError"
            /\ task[t].payload = task[t].response

SendSteps == << "nonce", "sign", "execute", "wait", "receipt", "extract" >>

IsPrefix(p, q) == Len(p) <= Len(q) /\ \A i \in 1..Len(p) : p[i] = q[i]

\* C7 (single submission, no retry): in every state the steps a call has taken
\* in eth_send_transaction are an initial part of nonce fetch, sign, execute,
\* wait, receipt retrieval, outcome extraction; execute was called at most once
\* for it, whatever the outcome; and the account's nonce has moved at most once
\* per call.
C7_SingleSubmission ==
    /\ \A t \in Tasks :
           /\ IsPrefix(task[t].steps, SendSteps)
           /\ task[t].executes <= 1
           /\ task[t].executes = Cardinality({i \in 1..Len(task[t].steps) :
                                                  task[t].steps[i] = "execute"})
    /\ chain_nonce <= Cardinality({t \in Tasks : task[t].executes = 1})

\* One call ended on success flag 0 after all six steps, the other on a
\* receipt without a single status event; each submitted once.
C7_Witness ==
    \E t, u \in Tasks :
        /\ task[t].pc = "done" /\ task[t].exception = "EvmTransactionError"
        /\ task[t].op = "deploy" /\ task[t].steps = SendSteps
        /\ task[u].pc = "done"
        /\ task[u].exception =
               "ValueError: Cannot locate the single event giving the actual tx status"
        /\ task[t].executes = 1 /\ task[u].executes = 1

\* C8 (independence of deploy invocations): the contract a deploy call has
\* returned carries the addresses of that call's own deployment response, in
\* every later state.
C8_DeployIndependence ==
    \A t \in Tasks :
        (task[t].op = "deploy" /\ task[t].kind = "returned") =>
            /\ contracts[task[t].obj].address =
                   FormatHex(BigOfInt(task[t].response[2]), ADDRESS_HEX)
            /\ contracts[task[t].obj].starknet_address = task[t].response[1]

\* C9 (nonce distinctness): two calls that have submitted carry different
\* nonces, and a call's nonce is the account's nonce when it submits.
C9_NonceDistinct ==
    /\ \A t, u \in Tasks :
           (t # u /\ task[t].executes >= 1 /\ task[u].executes >= 1) =>
               task[t].nonce # task[u].nonce
    /\ \A t \in Tasks :
           task[t].executes >= 1 => task[t].nonce = task[t].nonce_at_execute

============================================================================
